---- MODULE Spec2Model ----
(***************************************************************************)
(* Model of task_sheet_splitter/main.py: a document is cut into tasks at   *)
(* heading blocks (TaskPart.split_page), every slice is tightened to its   *)
(* text (TaskPart.cropped), slices are assembled into tasks across page    *)
(* breaks (collect_tasks) and every task is laid out on a page of its own  *)
(* with an optional grid (layout_tasks).                                   *)
(*                                                                         *)
(* Coordinates are exact numbers.  The model keeps them as integers and    *)
(* draws pages and blocks from sets on which every product with 0.2,       *)
(* 0.005, 0.007, 0.01 and every division by 2 and 40 is an integer.        *)
(***************************************************************************)
EXTENDS Integers, Sequences, FiniteSets, TLC

VARIABLES
    pc,          \* where main is: "collect", "slice", "layout" or "done"
    doc,         \* the kind of document read: a "sheet" or a "booklet"
    page_count,  \* doc.page_count
    page_idx,    \* page_idx of collect_tasks
    page,        \* page = doc[page_idx]
    slices,      \* what TaskPart.split_page(page, block_re) yields
    i,           \* i of enumerate(...): the index of the next raw slice
    last,        \* the last call of cropped: its part, blocks and result
    tasks,       \* tasks
    surviving,   \* for every page read, the slices cropped did not discard
    landscape,   \* args.landscape
    grid,        \* args.grid
    result,      \* the pages of the result document
    t,           \* the place of the next task in the loop of layout_tasks
    xref         \* xref of layout_tasks

vars == <<pc, doc, page_count, page_idx, page, slices, i, last, tasks, surviving,
          landscape, grid, result, t, xref>>

\* ---------------------------------------------------------------- bounds
MaxPages == 3
MaxBlocks == 2
MaxDigits == 2

\* ------------------------------------------------------ program constants
\* margin = 0.2 * abs(b[3] - b[1])
HeadingMarginPermille == 200
\* (block[1] - last_y) / self.page.rect.height > 0.05
NoiseGapPermille == 50
\* sum(len(b[4]) for b in blocks) < 10
MinChars == 10
\* blocks[0][1] - self.page.rect.height*0.005
TopPadPermille == 5
\* max(b[3] for b in blocks) + self.page.rect.height*0.007
BottomPadPermille == 7
\* line_offset = 0.01 * h
LineOffsetPermille == 10
\* cell_size = task[0].page.rect.width / 40
GridColumns == 40

\* An Optional value: None, or Some(x).
None == <<>>
Some(x) == <<x>>

Permille(x, p) == (x * p) \div 1000
Abs(x) == IF x < 0 THEN -x ELSE x
Max(a, b) == IF a >= b THEN a ELSE b

\* ------------------------------------------------------------------ texts
\* A text is the sequence of its characters.
Digits == {"0", "1", "2", "3", "4", "5", "6", "7", "8", "9"}
Spaces == {" ", "\t", "\n", "\r", "\f"}

\* The positions after the literal word w, read at one of the positions P.
Lit(text, P, w) ==
    {p + Len(w) : p \in {q \in P : /\ q + Len(w) - 1 <= Len(text)
                                   /\ SubSeq(text, q, q + Len(w) - 1) = w}}

\* The positions after one character of the class cls.
OneOf(text, P, cls) == {p + 1 : p \in {q \in P : q <= Len(text) /\ text[q] \in cls}}

\* The positions after zero or more characters of the class cls.
RECURSIVE Star(_, _, _)
Star(text, P, cls) ==
    LET Q == P \cup OneOf(text, P, cls)
    IN  IF Q = P THEN P ELSE Star(text, Q, cls)

\* $ of a pattern without re.MULTILINE: the end of the text, or just before a
\* newline that ends the text.
AtEnd(text, p) ==
    \/ p = Len(text) + 1
    \/ p = Len(text) /\ text[p] = "\n"

\* PAGE_NUMBER_REGEX.match(text):
\*   ^(Page|Seite)?\s*[0-9](\s*(of|von)\s*[0-9]*)?\s*$
PAGE_NUMBER_REGEX(text) ==
    LET p0 == {1}
        p1 == p0 \cup Lit(text, p0, <<"P", "a", "g", "e">>)
                 \cup Lit(text, p0, <<"S", "e", "i", "t", "e">>)
        p2 == Star(text, p1, Spaces)
        p3 == OneOf(text, p2, Digits)
        g1 == Star(text, p3, Spaces)
        g2 == Lit(text, g1, <<"o", "f">>) \cup Lit(text, g1, <<"v", "o", "n">>)
        g3 == Star(text, g2, Spaces)
        g4 == Star(text, g3, Digits)
        p4 == p3 \cup g4
        p5 == Star(text, p4, Spaces)
    IN  \E p \in p5 : AtEnd(text, p)

\* BLOCK_REGEX.match(text):  ^Exercise [0-9]+\n$|^Aufgabe [0-9]+\n$
BLOCK_REGEX(text) ==
    LET h0 == Lit(text, {1}, <<"E", "x", "e", "r", "c", "i", "s", "e", " ">>)
                \cup Lit(text, {1}, <<"A", "u", "f", "g", "a", "b", "e", " ">>)
        h1 == Star(text, OneOf(text, h0, Digits), Digits)
        h2 == OneOf(text, h1, {"\n"})
    IN  \E p \in h2 : AtEnd(text, p)

\* ----------------------------------------------------------------- inputs
\* The texts of the blocks of a page.
Heading == <<"E", "x", "e", "r", "c", "i", "s", "e", " ", "1", "\n">>
Body == <<"S", "o", "l", "v", "e", " ", "x", "=", "1", "\n">>
Number3 == <<"3", "\n">>
Number12 == <<"1", "2", "\n">>
Number3of10 == <<"P", "a", "g", "e", " ", "3", " ", "o", "f", " ", "1", "0", "\n">>
Empty == <<>>

\* page.rect of the pages of the document: (x0, y0, x1, y1).
PageRects == {<<0, 0, 600, 1000>>}
\* page.CropBoxPosition of the pages of the document: (x, y).
CropBoxPositions == {<<10, 20>>}

\* The documents read are of two kinds.  A sheet is a single page with any
\* text at any place; a booklet has up to MaxPages pages of few lines.
\* Texts(d): the texts of the blocks; Tops(d) and LineHeights(d): the top
\* coordinates and heights of the blocks of one line; TallExtents(d): the top
\* and bottom of the blocks of many lines, which hold heading or body text.
Texts(d) ==
    IF d = "sheet" THEN {Heading, Body, Number3, Number12, Number3of10, Empty}
    ELSE {Heading, Body, Number3}
Tops(d) == IF d = "sheet" THEN {0, 100, 200, 300} ELSE {100, 200}
LineHeights(d) == {10}
TallExtents(d) == IF d = "sheet" THEN {<<200, 800>>, <<400, 1000>>} ELSE {}

\* A text block (x0, y0, x1, y1, text), as page.get_text_blocks() gives it.
Blocks(d, rect) ==
    {<<rect[1], y, rect[3], y + h, txt>> :
        y \in Tops(d), h \in LineHeights(d), txt \in Texts(d)}
    \cup {<<rect[1], e[1], rect[3], e[2], txt>> :
             e \in TallExtents(d), txt \in {Heading, Body}}

Disjoint(a, b) == a[4] <= b[2] \/ b[4] <= a[2]

\* The block lists of a page: at most MaxBlocks blocks that do not overlap, in
\* any order.
BlockLists(d, rect) ==
    UNION {{s \in [1..n -> Blocks(d, rect)] :
               \A j \in 1..n : \A k \in 1..n : j < k => Disjoint(s[j], s[k])}
           : n \in 0..MaxBlocks}

\* ------------------------------------------------------------- TaskPart
\* TaskPart.from_y_offsets(page, y0, y1)
from_y_offsets(pg, y0, y1) ==
    [page |-> [number |-> pg.number, rect |-> pg.rect, crop |-> pg.crop],
     rect |-> <<pg.rect[1], y0, pg.rect[3], y1>>]

\* sorted(blocks, key=lambda b: b[1]): stable, ascending in the top coordinate.
RECURSIVE InsertByTop(_, _)
InsertByTop(s, b) ==
    IF s = <<>> THEN <<b>>
    ELSE IF s[Len(s)][2] <= b[2] THEN Append(s, b)
    ELSE Append(InsertByTop(SubSeq(s, 1, Len(s) - 1), b), s[Len(s)])

RECURSIVE SortByTop(_)
SortByTop(s) ==
    IF s = <<>> THEN <<>>
    ELSE InsertByTop(SortByTop(SubSeq(s, 1, Len(s) - 1)), s[Len(s)])

IsHeading(b) == BLOCK_REGEX(b[5])

\* Upper without the clamp to the page top: upper = b[1] - margin.
Upper_Unclamped(pg, b) ==
    b[2] - Permille(Abs(b[4] - b[2]), HeadingMarginPermille)

\* upper = max(b[1] - margin, page.rect[1])
Upper(pg, b) ==
    Max(b[2] - Permille(Abs(b[4] - b[2]), HeadingMarginPermille), pg.rect[2])

\* The loop of split_page over the sorted heading blocks from the k-th on.
RECURSIVE SplitFrom(_, _, _, _)
SplitFrom(pg, blocks, k, prev) ==
    IF k > Len(blocks)
    THEN <<from_y_offsets(pg, prev, pg.rect[4])>>
    ELSE <<from_y_offsets(pg, prev, Upper(pg, blocks[k]))>>
         \o SplitFrom(pg, blocks, k + 1, Upper(pg, blocks[k]))

\* TaskPart.split_page(page, block_re): the parts it yields, in order.
split_page(pg) ==
    SplitFrom(pg, SortByTop(SelectSeq(pg.blocks, IsHeading)), 1, pg.rect[2])

\* page.get_text('blocks', clip=rect): the blocks of the page that reach into
\* the clip rectangle.
InClip(b, rect) == b[2] < rect[4] /\ b[4] > rect[2]
get_text(pg, rect) == SelectSeq(pg.blocks, LAMBDA b : InClip(b, rect))

\* Python's truth value of last_y: None and 0 are both false.
Truthy(last_y) == last_y # None /\ last_y[1] # 0

\* if last_y and (block[1] - last_y) / self.page.rect.height > 0.05
\*    and PAGE_NUMBER_REGEX.match(block[4]): continue
IsNoise(pg, last_y, b) ==
    /\ Truthy(last_y)
    /\ (b[2] - last_y[1]) * 1000 > NoiseGapPermille * (pg.rect[4] - pg.rect[2])
    /\ PAGE_NUMBER_REGEX(b[5])

\* The loop of cropped over the sorted blocks from the k-th on: the blocks kept.
RECURSIVE Retain(_, _, _, _)
Retain(pg, blocks, k, last_y) ==
    IF k > Len(blocks) THEN <<>>
    ELSE IF IsNoise(pg, last_y, blocks[k]) THEN Retain(pg, blocks, k + 1, last_y)
    ELSE IF blocks[k][5] = <<>> THEN Retain(pg, blocks, k + 1, last_y)
    ELSE <<blocks[k]>> \o Retain(pg, blocks, k + 1, Some(blocks[k][2]))

Retained(pg, part) == Retain(pg, SortByTop(get_text(pg, part.rect)), 1, None)

RECURSIVE CharCount(_)
CharCount(blocks) ==
    IF blocks = <<>> THEN 0 ELSE Len(blocks[1][5]) + CharCount(Tail(blocks))

RECURSIVE MaxBottom(_)
MaxBottom(blocks) ==
    IF Len(blocks) = 1 THEN blocks[1][4]
    ELSE Max(blocks[1][4], MaxBottom(Tail(blocks)))

\* IsTrivial with the threshold itself counted as trivial.
IsTrivial_Inclusive(blocks) == CharCount(blocks) <= MinChars

\* if sum(len(b[4]) for b in blocks) < 10: return
IsTrivial(blocks) == CharCount(blocks) < MinChars

\* The part cropped returns for the blocks it kept.
Tightened(pg, blocks) ==
    from_y_offsets(pg,
        blocks[1][2] - Permille(pg.rect[4] - pg.rect[2], TopPadPermille),
        MaxBottom(blocks) + Permille(pg.rect[4] - pg.rect[2], BottomPadPermille))

\* TaskPart.cropped(self)
cropped(pg, part) ==
    LET blocks == Retained(pg, part)
    IN  IF IsTrivial(blocks) THEN None ELSE Some(Tightened(pg, blocks))

\* ---------------------------------------------------------- layout_tasks
Width(rect) == rect[3] - rect[1]
Height(rect) == rect[4] - rect[2]

\* TaskPart.source_rect(self)
source_rect(part) ==
    <<part.rect[1] + part.page.crop[1], part.rect[2] + part.page.crop[2],
      part.rect[3] + part.page.crop[1], part.rect[4] + part.page.crop[2]>>

\* The loop over the parts of a task from the k-th on: the showPDFpage calls.
RECURSIVE ShowFrom(_, _, _, _, _)
ShowFrom(task, k, w, y_offset, ref) ==
    IF k > Len(task) THEN <<>>
    ELSE LET r == source_rect(task[k])
             shift == (w - Width(r)) \div 2
         IN  <<[rect |-> <<shift, y_offset, shift + Width(r), y_offset + Height(r)>>,
                pno |-> task[k].page.number, clip |-> r, reuse_ref |-> ref]>>
             \o ShowFrom(task, k + 1, w,
                         y_offset + Height(r)
                            + Permille(Height(task[k].page.rect), BottomPadPermille),
                         IF ref = 0 THEN 1 ELSE ref)

\* y_offset after the parts of a task from the k-th on.
RECURSIVE OffsetFrom(_, _, _)
OffsetFrom(task, k, y_offset) ==
    IF k > Len(task) THEN y_offset
    ELSE OffsetFrom(task, k + 1,
                    y_offset + Height(source_rect(task[k]))
                       + Permille(Height(task[k].page.rect), BottomPadPermille))

Line(x0, y0, x1, y1) == [from |-> <<x0, y0>>, to |-> <<x1, y1>>]

\* while base <= h: draw_line((0, base), (w, base)); base += cell_size
RECURSIVE HLines(_, _, _, _)
HLines(base, w, h, cell_size) ==
    IF base <= h
    THEN <<Line(0, base, w, base)>> \o HLines(base + cell_size, w, h, cell_size)
    ELSE <<>>

\* while base <= w: draw_line((base, start), (base, h)); base += cell_size
\* and the draw_line((base, start), (base, h)) that follows the loop.
RECURSIVE VLines(_, _, _, _, _)
VLines(base, start, w, h, cell_size) ==
    IF base <= w
    THEN <<Line(base, start, base, h)>> \o VLines(base + cell_size, start, w, h, cell_size)
    ELSE <<Line(base, start, base, h)>>

\* The draw_line calls of one task's page.
GridLines(task, w, h, y_offset) ==
    LET cell_size == Width(task[1].page.rect) \div GridColumns
        start == y_offset + Permille(h, LineOffsetPermille)
    IN  HLines(start, w, h, cell_size)
        \o VLines((w % cell_size) \div 2, start, w, h, cell_size)

\* new_page = result.new_page(-1, w, h) and what the rounds of the loop over the
\* parts and the grid put on it.
compose(task, w, h, gr, ref) ==
    [width |-> w, height |-> h,
     shown |-> ShowFrom(task, 1, w, 0, ref),
     y_offset |-> OffsetFrom(task, 1, 0),
     lines |-> IF gr THEN GridLines(task, w, h, OffsetFrom(task, 1, 0)) ELSE <<>>]

\* new_page without the swap of width and height in landscape.
new_page_NoSwap(task, ls, gr, ref) ==
    compose(task, Width(task[1].page.rect), Height(task[1].page.rect), gr, ref)

\* The page layout_tasks makes for one task:
\* w, h = task[0].page.rect.width, task[0].page.rect.height
\* if landscape: w, h = h, w
new_page(task, ls, gr, ref) ==
    compose(task,
            IF ls THEN Height(task[1].page.rect) ELSE Width(task[1].page.rect),
            IF ls THEN Width(task[1].page.rect) ELSE Height(task[1].page.rect),
            gr, ref)

\* ------------------------------------------------------------ the program
Pages(d) ==
    UNION {{[number |-> 0, rect |-> r, crop |-> c, blocks |-> b] :
               c \in CropBoxPositions, b \in BlockLists(d, r)} : r \in PageRects}

SheetPages == Pages("sheet")
BookletPages == Pages("booklet")

NoPage == [number |-> 0, rect |-> <<0, 0, 0, 0>>, crop |-> <<0, 0>>, blocks |-> <<>>]

\* p = fitz.Document(args.src); tasks = []
Start ==
    /\ pc = "collect"
    /\ page_idx = 0
    /\ page = NoPage
    /\ slices = <<>>
    /\ i = 0
    /\ last = None
    /\ tasks = <<>>
    /\ surviving = <<>>
    /\ landscape = FALSE
    /\ grid = TRUE
    /\ result = <<>>
    /\ t = 1
    /\ xref = 0

\* The document is a sheet.
Init == doc = "sheet" /\ page_count = 1 /\ Start

\* The document is a booklet.
InitDocument == doc = "booklet" /\ page_count \in 1..MaxPages /\ Start

\* for page_idx in range(doc.page_count): page = doc[page_idx], and the start of
\* enumerate(TaskPart.split_page(page, block_re)).
NextPage ==
    /\ pc = "collect"
    /\ page_idx < page_count
    /\ \E p \in IF doc = "sheet" THEN SheetPages ELSE BookletPages :
          LET pg == [p EXCEPT !.number = page_idx]
          IN  /\ page' = pg
              /\ slices' = split_page(pg)
    /\ i' = 0
    /\ surviving' = Append(surviving, <<>>)
    /\ pc' = "slice"
    /\ UNCHANGED <<doc, page_count, page_idx, last, tasks, landscape, grid, result, t, xref>>

\* Assemble without the merge across a page break.
Assemble_NeverMerges(tsk, idx, part) == Append(tsk, <<part>>)

\* Assemble without the test i == 0.
Assemble_AnySlice(tsk, idx, part) ==
    IF tsk # <<>>
    THEN [tsk EXCEPT ![Len(tsk)] = Append(@, part)]
    ELSE Append(tsk, <<part>>)

\* Assemble with tasks[0] in the place of tasks[-1].
Assemble_FirstTask(tsk, idx, part) ==
    IF idx = 0 /\ tsk # <<>>
    THEN [tsk EXCEPT ![1] = Append(@, part)]
    ELSE Append(tsk, <<part>>)

\* if i == 0 and tasks: tasks[-1].append(part) else: tasks.append([part])
Assemble(tsk, idx, part) ==
    IF idx = 0 /\ tsk # <<>>
    THEN [tsk EXCEPT ![Len(tsk)] = Append(@, part)]
    ELSE Append(tsk, <<part>>)

\* One round of the loop over the slices of the page.
ProcessSlice ==
    /\ pc = "slice"
    /\ LET part == slices[i + 1]
           kept == Retained(page, part)
           crop == cropped(page, part)
       IN  /\ last' = Some([part |-> part,
                            blocks |-> SortByTop(get_text(page, part.rect)),
                            kept |-> kept, cropped |-> crop])
           /\ IF crop = None
              THEN UNCHANGED <<tasks, surviving>>
              ELSE /\ tasks' = Assemble(tasks, i, crop[1])
                   /\ surviving' = [surviving EXCEPT ![Len(surviving)] =
                                       Append(@, [i |-> i, part |-> crop[1]])]
    /\ i' = i + 1
    /\ IF i + 1 = Len(slices)
       THEN pc' = "collect" /\ page_idx' = page_idx + 1
       ELSE pc' = "slice" /\ page_idx' = page_idx
    /\ UNCHANGED <<doc, page_count, page, slices, landscape, grid, result, t, xref>>

\* return tasks: the locals of collect_tasks are gone;
\* result = fitz.Document(); layout_tasks(result, p, tasks, landscape, grid)
StartLayout ==
    /\ pc = "collect"
    /\ page_idx = page_count
    /\ page' = NoPage
    /\ slices' = <<>>
    /\ i' = 0
    /\ last' = None
    /\ surviving' = <<>>
    /\ landscape' \in BOOLEAN
    /\ grid' \in BOOLEAN
    /\ result' = <<>>
    /\ t' = 1
    /\ xref' = 0
    /\ pc' = "layout"
    /\ UNCHANGED <<doc, page_count, page_idx, tasks>>

\* One round of the loop of layout_tasks over the tasks.
LayoutTask ==
    /\ pc = "layout"
    /\ t <= Len(tasks)
    /\ result' = Append(result, new_page(tasks[t], landscape, grid, xref))
    /\ xref' = 1
    /\ t' = t + 1
    /\ UNCHANGED <<pc, doc, page_count, page_idx, page, slices, i, last, tasks, surviving,
                   landscape, grid>>

\* result.save(args.dst, garbage=4)
Save ==
    /\ pc = "layout"
    /\ t > Len(tasks)
    /\ pc' = "done"
    /\ UNCHANGED <<doc, page_count, page_idx, page, slices, i, last, tasks, surviving,
                   landscape, grid, result, t, xref>>

Next == NextPage \/ ProcessSlice \/ StartLayout \/ LayoutTask \/ Save

\* The program on a sheet.
Spec == Init /\ [][Next]_vars

\* The program on a booklet.
SpecDocument == InitDocument /\ [][Next]_vars

\* ------------------------------------------------------------- the claims
Range(s) == {s[k] : k \in 1..Len(s)}
Collecting == pc \in {"collect", "slice"}
Collected == pc = "collect" /\ page_idx = page_count
PageHeight(pg) == pg.rect[4] - pg.rect[2]

\* The surviving slices of all pages read so far, in order, each with its page
\* (1 for the first page of the document), its place among the surviving
\* slices of its page and its index among the raw slices of its page.
RECURSIVE Survivors(_, _)
Survivors(hist, p) ==
    IF p > Len(hist) THEN <<>>
    ELSE [j \in 1..Len(hist[p]) |->
             [pageno |-> p, place |-> j, i |-> hist[p][j].i, part |-> hist[p][j].part]]
         \o Survivors(hist, p + 1)

\* The tasks when the first surviving slice of every page but the first joins
\* the last task.
RECURSIVE ByFirstSurviving(_)
ByFirstSurviving(flat) ==
    IF flat = <<>> THEN <<>>
    ELSE LET acc == ByFirstSurviving(SubSeq(flat, 1, Len(flat) - 1))
             e == flat[Len(flat)]
         IN  IF e.pageno > 1 /\ e.place = 1 /\ acc # <<>>
             THEN [acc EXCEPT ![Len(acc)] = Append(@, e.part)]
             ELSE Append(acc, <<e.part>>)

\* The tasks when the raw slice 0 of a page, if it survives, joins the last task.
RECURSIVE ByRawIndex(_)
ByRawIndex(flat) ==
    IF flat = <<>> THEN <<>>
    ELSE LET acc == ByRawIndex(SubSeq(flat, 1, Len(flat) - 1))
             e == flat[Len(flat)]
         IN  IF e.i = 0 /\ acc # <<>>
             THEN [acc EXCEPT ![Len(acc)] = Append(@, e.part)]
             ELSE Append(acc, <<e.part>>)

TwoByTwo ==
    /\ Collected
    /\ Len(surviving) = 2
    /\ Len(surviving[1]) = 2
    /\ Len(surviving[2]) = 2

\* C1 as claimed: the first surviving slice of every page but the first joins
\* the last task and every other surviving slice starts a task, so surviving
\* slices [A, B] of page 1 and [C, D] of page 2 always give [[A], [B, C], [D]].
C1_FirstSurvivingMerges ==
    Collecting =>
        /\ tasks = ByFirstSurviving(Survivors(surviving, 1))
        /\ TwoByTwo =>
              tasks = << <<surviving[1][1].part>>,
                         <<surviving[1][2].part, surviving[2][1].part>>,
                         <<surviving[2][2].part>> >>

\* C1 amended: the raw slice 0 of a page, if it survives cropping, joins the
\* last task whenever a task exists, and every other surviving slice starts a
\* task of one part; surviving slices [A, B] of page 1 and [C, D] of page 2 give
\* [[A], [B, C], [D]] when C is the raw slice 0 of page 2 and
\* [[A], [B], [C], [D]] when the raw slice 0 of page 2 was discarded.
C1_RawSliceZeroMerges ==
    Collecting =>
        /\ tasks = ByRawIndex(Survivors(surviving, 1))
        /\ TwoByTwo /\ surviving[2][1].i = 0 =>
              tasks = << <<surviving[1][1].part>>,
                         <<surviving[1][2].part, surviving[2][1].part>>,
                         <<surviving[2][2].part>> >>
        /\ TwoByTwo /\ surviving[2][1].i # 0 =>
              tasks = << <<surviving[1][1].part>>, <<surviving[1][2].part>>,
                         <<surviving[2][1].part>>, <<surviving[2][2].part>> >>

\* C1: two pages of two surviving slices each, the raw slice 0 of page 2 among
\* them, have given three tasks.
C1_Witness == TwoByTwo /\ surviving[2][1].i = 0 /\ Len(tasks) = 3

\* C2 as claimed: a page with k heading blocks gives k+1 slices, every slice
\* has y0 <= y1, every slice starts where the one before ends, the first starts
\* at the page top and the last ends at the page bottom.
C2_SlicesMonotonic ==
    pc = "slice" =>
        /\ Len(slices) = Cardinality({k \in 1..Len(page.blocks) : IsHeading(page.blocks[k])}) + 1
        /\ slices[1].rect[2] = page.rect[2]
        /\ slices[Len(slices)].rect[4] = page.rect[4]
        /\ \A k \in 1..Len(slices) : slices[k].rect[2] <= slices[k].rect[4]
        /\ \A k \in 2..Len(slices) : slices[k].rect[2] = slices[k - 1].rect[4]

\* The blocks before the k-th that cropped kept.
KeptBefore(c, k) == {j \in 1..(k - 1) : c.blocks[j] \in Range(c.kept)}
Latest(J) == CHOOSE j \in J : \A m \in J : m <= j

\* C3 as claimed: a block that matches the page-number pattern and whose top is
\* more than 5% of the page height below the top of the last block kept is not
\* kept, wherever the last block kept lies; a block with text that does not
\* match the pattern is kept.
C3_NoiseSkipped ==
    last # None =>
        LET c == last[1]
        IN  \A k \in 1..Len(c.blocks) :
               LET b == c.blocks[k]
                   J == KeptBefore(c, k)
               IN  /\ ( /\ PAGE_NUMBER_REGEX(b[5])
                        /\ J # {}
                        /\ (b[2] - c.blocks[Latest(J)][2]) * 100 > 5 * PageHeight(c.part.page) )
                      => b \notin Range(c.kept)
                   /\ (b[5] # <<>> /\ ~PAGE_NUMBER_REGEX(b[5])) => b \in Range(c.kept)

RECURSIVE Chars(_)
Chars(blocks) == IF blocks = <<>> THEN 0 ELSE Len(blocks[1][5]) + Chars(Tail(blocks))

Bottoms(blocks) == {blocks[k][4] : k \in 1..Len(blocks)}

\* C4: cropped returns none exactly when the blocks it kept hold fewer than 10
\* characters; the part it returns spans from the top of the first block kept
\* less 0.5% of the page height to the greatest bottom of the blocks kept plus
\* 0.7% of the page height.
C4_TrivialIffNone ==
    last # None =>
        LET c == last[1]
            h == PageHeight(c.part.page)
        IN  /\ c.cropped = None <=> Chars(c.kept) < 10
            /\ c.cropped # None =>
                  /\ Chars(c.kept) >= 10
                  /\ c.cropped[1].rect[2] * 1000 = c.kept[1][2] * 1000 - 5 * h
                  /\ \E y \in Bottoms(c.kept) :
                        /\ \A z \in Bottoms(c.kept) : z <= y
                        /\ c.cropped[1].rect[4] * 1000 = y * 1000 + 7 * h
                  /\ c.cropped[1].page = c.part.page

\* C4: cropped has returned a part for a slice of two blocks of which it kept
\* exactly 10 characters.
C4_Witness ==
    /\ last # None
    /\ last[1].cropped # None
    /\ Chars(last[1].kept) = 10
    /\ Len(last[1].blocks) = 2

WithinPage(part) ==
    part.page.rect[2] <= part.rect[2] /\ part.rect[4] <= part.page.rect[4]

WithinPadding(part) ==
    /\ part.page.rect[2] * 1000 - 5 * PageHeight(part.page) <= part.rect[2] * 1000
    /\ part.rect[4] * 1000 <= part.page.rect[4] * 1000 + 7 * PageHeight(part.page)

TaskParts == UNION {Range(tasks[k]) : k \in 1..Len(tasks)}

\* C5 as claimed: every raw slice of split_page and every part cropped returns,
\* hence every part of a task, lies within the vertical extent of its page.
C5_AllWithinPage ==
    /\ \A k \in 1..Len(slices) : WithinPage(slices[k])
    /\ last # None /\ last[1].cropped # None => WithinPage(last[1].cropped[1])
    /\ \A part \in TaskParts : WithinPage(part)

\* C5 amended: every raw slice of split_page lies within the vertical extent of
\* its page; a part cropped returns, hence every part of a task, lies within
\* that extent widened by the padding: 0.5% of the page height above the page
\* top and 0.7% of it below the page bottom.
C5_WithinPaddedPage ==
    /\ \A k \in 1..Len(slices) : WithinPage(slices[k])
    /\ last # None /\ last[1].cropped # None => WithinPadding(last[1].cropped[1])
    /\ \A part \in TaskParts : WithinPadding(part)

\* C5: a page was cut at a heading and a task holds a part that starts above
\* the top of its page.
C5_Witness ==
    /\ pc = "slice"
    /\ Len(slices) >= 2
    /\ \E part \in TaskParts : part.rect[2] < part.page.rect[2]

\* C6: every task has at least one part, and the parts of a task lie on
\* different pages, in strictly increasing page index.
C6_TasksIncreasing ==
    \A k \in 1..Len(tasks) :
        /\ Len(tasks[k]) >= 1
        /\ \A m \in 2..Len(tasks[k]) :
              tasks[k][m - 1].page.number < tasks[k][m].page.number

\* C6: while a page is read there are a task of three parts and a task of one.
C6_Witness ==
    /\ pc = "slice"
    /\ \E k \in 1..Len(tasks) : Len(tasks[k]) = 3
    /\ \E k \in 1..Len(tasks) : Len(tasks[k]) = 1

\* C7: layout_tasks makes one output page per task, in the order of the tasks:
\* while it runs it has made the pages of the tasks before the t-th, and at the
\* end the k-th output page shows the parts of the k-th task in their order and
\* has the size of the page of the task's first part, width and height swapped
\* in landscape.
C7_OnePagePerTask ==
    pc \in {"layout", "done"} =>
        /\ Len(result) = t - 1
        /\ pc = "done" => Len(result) = Len(tasks)
        /\ \A k \in 1..Len(result) :
              /\ Len(result[k].shown) = Len(tasks[k])
              /\ \A m \in 1..Len(tasks[k]) :
                    /\ result[k].shown[m].pno = tasks[k][m].page.number
                    /\ result[k].shown[m].clip = source_rect(tasks[k][m])
              /\ result[k].width =
                    IF landscape THEN tasks[k][1].page.rect[4] - tasks[k][1].page.rect[2]
                    ELSE tasks[k][1].page.rect[3] - tasks[k][1].page.rect[1]
              /\ result[k].height =
                    IF landscape THEN tasks[k][1].page.rect[3] - tasks[k][1].page.rect[1]
                    ELSE tasks[k][1].page.rect[4] - tasks[k][1].page.rect[2]

\* C7: three tasks, the second of two parts, were laid out in landscape.
C7_Witness ==
    /\ pc = "done"
    /\ landscape
    /\ Len(result) = 3
    /\ Len(tasks[2]) = 2

\* C8 as claimed: with the grid no point of a line drawn lies above
\* start = content_bottom + 0.01 * height of the output page, also for a task
\* whose parts reach beyond the output page; without the grid no line is drawn.
C8_NoLineAboveStart ==
    \A k \in 1..Len(result) :
        /\ \A l \in Range(result[k].lines) :
              /\ l.from[2] * 100 >= result[k].y_offset * 100 + result[k].height
              /\ l.to[2] * 100 >= result[k].y_offset * 100 + result[k].height
        /\ ~grid => result[k].lines = <<>>

\* C9 as claimed: the two parts of a task of two parts lie on adjacent pages.
C9_TwoPartsAdjacent ==
    \A k \in 1..Len(tasks) :
        Len(tasks[k]) = 2 => tasks[k][2].page.number = tasks[k][1].page.number + 1

\* C9 amended: consecutive parts of a task lie on pages n < m such that no
\* page strictly between n and m has a surviving slice; the two parts of a
\* task of two parts lie on adjacent pages when every page has a surviving
\* slice.
C9_NoSurvivorBetween ==
    Collecting =>
        \A k \in 1..Len(tasks) : \A m \in 2..Len(tasks[k]) :
            /\ tasks[k][m - 1].page.number < tasks[k][m].page.number
            /\ \A n \in (tasks[k][m - 1].page.number + 1)..(tasks[k][m].page.number - 1) :
                  surviving[n + 1] = <<>>

\* C9: a task of two parts whose second part lies two pages after its first.
C9_Witness ==
    /\ Collected
    /\ \E k \in 1..Len(tasks) :
          /\ Len(tasks[k]) = 2
          /\ tasks[k][2].page.number = tasks[k][1].page.number + 2

\* The decimal numbers of at most MaxDigits digits.
RECURSIVE Numbers(_)
Numbers(n) ==
    IF n = 0 THEN {}
    ELSE {<<d>> : d \in {"1", "2", "3"}}
         \cup {<<d>> \o m : d \in {"1", "2", "3"}, m \in Numbers(n - 1)}

\* The texts "Page N", "Seite N", "N of M", "N von M" and "N", each with or
\* without a newline at its end.
PageNumberForms ==
    LET N == Numbers(MaxDigits)
        forms == N
                 \cup {<<"P", "a", "g", "e", " ">> \o n : n \in N}
                 \cup {<<"S", "e", "i", "t", "e", " ">> \o n : n \in N}
                 \cup {n \o <<" ", "o", "f", " ">> \o m : n \in N, m \in N}
                 \cup {n \o <<" ", "v", "o", "n", " ">> \o m : n \in N, m \in N}
    IN  forms \cup {f \o <<"\n">> : f \in forms}

\* C10 as claimed: the page-number pattern accepts "Page N", "Seite N",
\* "N of M", "N von M" and "N" for all numbers N and M of one or more digits.
C10_AcceptsAllNumbers ==
    \A b \in Range(page.blocks) :
        b[5] \in PageNumberForms => PAGE_NUMBER_REGEX(b[5])

====
